---- MODULE Spec2Model ----
(***************************************************************************)
(* OneLogin client library: the OAuth token validity checks (oauthToken)   *)
(* and the login / second-factor state machine (LoginService).             *)
(*                                                                         *)
(* Instants are whole Unix seconds.  A Go nil pointer is the record Nil.   *)
(***************************************************************************)
EXTENDS Integers, Sequences, FiniteSets, TLC

VARIABLES
    token,          \* the oauthToken under test: [CreatedAt, ExpiresIn]
    clock,          \* the current time, as time.Now() reads it
    tret,           \* the last validity check: [op, val, at]
    issue,          \* the last getToken call: [op, resp, ret]
    calls,          \* concurrent getToken calls of one owner: caller -> [pc, resp, ret]
    cred,           \* the credential that owner holds, Nil when it has none
    svc,            \* the last GroupService / SAMLService call: [op, host, ret]
    auth,           \* LoginService.auth: Nil or the recorded authResponse
    verifyDevice,   \* LoginService.verifyDevice: Nil or [tag |-> device]
    call,           \* the last LoginService call, its requests and its result
    everAuth,       \* history: some authenticate call has succeeded
    everPending     \* history: some verifyFactor call was answered "pending"

serviceVars == <<calls, cred, svc>>
tokenVars == <<token, clock, tret, issue, serviceVars>>
loginVars == <<auth, verifyDevice, call, everAuth, everPending>>
vars == <<token, clock, tret, issue, calls, cred, svc,
          auth, verifyDevice, call, everAuth, everPending>>

Nil == [nil |-> TRUE]

-----------------------------------------------------------------------------
(* Bounds of the model                                                     *)

\* the clock advances at most this many seconds past Now0
MaxTicks == 2

\* the callers that run getToken at the same time for one owner
NumCallers == 2
Callers == 1..NumCallers

\* no getToken call in flight, no credential held, no service call made
ServiceIdle ==
    /\ calls = [p \in Callers |-> [pc |-> "idle", resp |-> Nil, ret |-> Nil]]
    /\ cred = Nil
    /\ svc = [op |-> "none", host |-> Nil, ret |-> Nil]

-----------------------------------------------------------------------------
(* oauthToken                                                              *)

\* time.Unix(1234567000, 0), the creation instant of the test credentials
T0 == 1234567000
\* time.Unix(1234567890, 0), the frozen "now" of the tests
Now0 == 1234567890
\* time.Time{}, the zero instant (0001-01-01T00:00:00Z).  It lies before
\* every instant the clock and Add can produce; it is represented by the
\* least instant of the model's integer range, which keeps that order.
ZeroTime == -2147483647
\* the near-expiry window, in seconds
NearExpiryThreshold == 60

\* ExpiresIn values: both sides of the expiry instant and of the near-expiry
\* window for a credential created at T0 and read at Now0 .. Now0 + MaxTicks,
\* the test vectors (500, 900, 951, 1000), zero and a negative value.
\* time.Second * time.Duration(ExpiresIn) does not overflow for any of them.
ExpiresInValues ==
    {-10, 0, 500, 829, 830, 831, 889, 890, 891, 892, 893, 900,
     949, 950, 951, 952, 953, 1000, 3600}

CreatedAtValues == {ZeroTime, T0, Now0}

Tokens == [CreatedAt : CreatedAtValues, ExpiresIn : ExpiresInValues]

\* t.Add(-time.Second * time.Duration(d)), in seconds
SubSeconds(t, d) == t - d

\* a.After(b)
After(a, b) == a > b

\* isExpired with the expiry instant itself counted as expired
isExpired_AtOrAfter(t, now) == ~After(t.CreatedAt, SubSeconds(now, t.ExpiresIn))

\* isExpired with the receiver and the argument of After exchanged
isExpired_Swapped(t, now) == After(t.CreatedAt, SubSeconds(now, t.ExpiresIn))

\* oauthToken.isExpired with time.Now() = now
isExpired(t, now) == After(SubSeconds(now, t.ExpiresIn), t.CreatedAt)

\* isNearExpired with the edge of the window left out
isNearExpired_Exclusive(t, now) ==
    After(SubSeconds(now, t.ExpiresIn - NearExpiryThreshold), t.CreatedAt)

\* oauthToken.isNearExpired with now() = now: the current time is within
\* NearExpiryThreshold seconds of the expiry instant, or past it
isNearExpired(t, now) ==
    ~After(t.CreatedAt, SubSeconds(now, t.ExpiresIn - NearExpiryThreshold))

\* no getToken call has been made
NoIssue ==
    [op |-> "none", resp |-> Nil,
     ret |-> [val |-> Nil, err |-> "", panic |-> FALSE]]

TokenInit ==
    /\ token \in Tokens
    /\ clock = Now0
    /\ tret = [op |-> "none", val |-> FALSE, at |-> Now0]
    /\ issue = NoIssue
    /\ ServiceIdle

\* token.isExpired()
CallIsExpired ==
    /\ tret' = [op |-> "isExpired", val |-> isExpired(token, clock), at |-> clock]
    /\ UNCHANGED <<token, clock, issue>>

\* token.isNearExpired()
CallIsNearExpired ==
    /\ tret' = [op |-> "isNearExpired", val |-> isNearExpired(token, clock),
                at |-> clock]
    /\ UNCHANGED <<token, clock, issue>>

\* one second passes
Tick ==
    /\ clock < Now0 + MaxTicks
    /\ clock' = clock + 1
    /\ UNCHANGED <<token, tret, issue>>

-----------------------------------------------------------------------------
(* LoginService                                                            *)

\* the longest data array a host response carries
MaxData == 2

\* AuthenticatedUser values (identifier, username)
Users == {[ID |-> 1, Username |-> "alice"], [ID |-> 2, Username |-> "bob"]}

Usernames == {u.Username : u \in Users}

\* the account a username_or_email belongs to on the host
Account(name) == CHOOSE u \in Users : u.Username = name

Dev(type, id) == [DeviceType |-> type, DeviceID |-> id]

\* device lists of an authResponse: none, two devices of one type (the first
\* with DeviceID 0), and a device of another type before the one asked for
DeviceLists ==
    { <<>>,
      <<Dev("OneLogin SMS", 0), Dev("OneLogin SMS", 7)>>,
      <<Dev("Google Authenticator", 3), Dev("OneLogin SMS", 7)>> }

\* device tags a caller asks for: the two registered types, and one that
\* differs from a registered type in case only
DeviceTags == {"OneLogin SMS", "Google Authenticator", "onelogin sms"}

\* the one-time code a caller supplies, and the codes the functions are
\* examined on
CallerOTPs == {"123456"}
OTPs == {"123456", "000000", ""}

\* the state token the host issues for a session of `name`
Tok(name) == "st-" \o name

\* authResponse, the fields the code reads
AuthEntry(status, user, st, devices) ==
    [Status |-> status, User |-> user, StateToken |-> st, Devices |-> devices]

\* a further entry of a data array that holds more than one
ExtraEntry == AuthEntry("", Nil, "", <<>>)

\* the data array whose first entry is e and which holds n entries
DataOf(e, n) == [i \in 1..n |-> IF i = 1 THEN e ELSE ExtraEntry]

\* the data arrays of more than one entry that start with e
LongData(e) == { DataOf(e, k) : k \in 2..MaxData }

\* (value, error) results; the empty error is Go's nil error
NoErr == ""
Ok(v) == [val |-> v, err |-> NoErr, panic |-> FALSE]
Err(e) == [val |-> Nil, err |-> e, panic |-> FALSE]
\* a nil pointer dereference: the call does not return
Panic == [val |-> Nil, err |-> NoErr, panic |-> TRUE]

ErrRequest == "request could not be built or authorized"
ErrTransport == "transport failure"
\* the error of a request whose context was cancelled or timed out
ErrCancelled == "context canceled"
ErrUnmarshal == "unparsable body"
ErrAuthFailed == "authentication failed"
ErrAuthNil == "auth is nil, successful prior authentication required"
ErrDeviceNotFound == "verify device not found"
ErrVerifyFailed == "verify factor failed"
ErrNoVerifyDevice == "no verifyDevice assigned"

\* strconv.FormatInt(n, 10)
FormatInt(n) == ToString(n)

\* ---- the host ----

\* what the host can put first in the data of its answer to
\* POST /api/1/login/auth for `name`
HostAuthEntries(name) ==
    { AuthEntry(status, user, st, devices) :
        status \in {"Authenticated", ""},
        user \in {Nil, Account(name)},
        st \in {"", Tok(name)},
        devices \in DeviceLists }

\* outcomes of the auth call: NewRequest / AddAuthorization fails, client.Do
\* fails, the caller's context ends the request, or client.Do decodes a data array: an empty one, one of a single
\* entry, or a longer one that starts with a terminal success or with a
\* second-factor challenge
AuthOutcomesOf(name) ==
    {[kind |-> "reqerr"], [kind |-> "doerr"], [kind |-> "cancelled"],
     [kind |-> "ok", d |-> <<>>]}
    \cup { [kind |-> "ok", d |-> <<e>>] : e \in HostAuthEntries(name) }
    \cup { [kind |-> "ok", d |-> d] :
             d \in LongData(AuthEntry("Authenticated", Account(name), "", <<>>))
                \cup LongData(AuthEntry("", Account(name), Tok(name),
                                        <<Dev("OneLogin SMS", 7)>>)) }

AuthOutcomesTable == [name \in Usernames |-> AuthOutcomesOf(name)]

AuthOutcomes(name) == AuthOutcomesTable[name]

\* the state tokens a request can carry
StateTokens == {""} \cup {Tok(name) : name \in Usernames}

\* the user of the session a state token belongs to, Nil when there is none
SessionUser(st) ==
    IF \E u \in Users : Tok(u.Username) = st
    THEN CHOOSE u \in Users : Tok(u.Username) = st
    ELSE Nil

\* responseMessage values the host can answer to a verify_factor request
\* that carries the state token st:
\* status code and type, and for 200 "success" the data: unparsable, empty,
\* a single entry that carries the user of the request's session or none, or
\* a longer array that starts with an authenticated entry
HostVerifyMessages(st) ==
    { [Code |-> c, Type |-> t, Data |-> <<>>, DataOK |-> TRUE] :
        c \in {200, 401}, t \in {"pending", "success", "error"} }
    \cup {[Code |-> 200, Type |-> "success", Data |-> <<>>, DataOK |-> FALSE]}
    \cup { [Code |-> 200, Type |-> "success", DataOK |-> TRUE,
            Data |-> <<AuthEntry(status, user, "", <<>>)>>] :
             status \in {"Authenticated", ""},
             user \in {Nil, SessionUser(st)} }
    \cup { [Code |-> 200, Type |-> "success", DataOK |-> TRUE, Data |-> d] :
             d \in LongData(AuthEntry("Authenticated", SessionUser(st), "", <<>>)) }

\* outcomes of the verify call: NewRequest / AddAuthorization fails, client.Do
\* fails, the caller's context ends the request, the body is no
\* responseMessage, or it is one
VerifyOutcomesOf(st) ==
    {[kind |-> "reqerr"], [kind |-> "doerr"], [kind |-> "cancelled"],
     [kind |-> "badbody"]}
    \cup { [kind |-> "ok", m |-> m] : m \in HostVerifyMessages(st) }

VerifyOutcomesTable == [st \in StateTokens |-> VerifyOutcomesOf(st)]

\* the outcomes of a verify call: the host answers for the session of the
\* state token the request carries
VerifyOutcomes(req) == VerifyOutcomesTable[req.StateToken]

\* ---- the client ----

\* authenticate reading d[0] of a data array of any length
AuthAccepts_AnyLength(d) ==
    Len(d) >= 1 /\ (d[1].Status = "Authenticated" \/ d[1].StateToken # "")

\* the condition under which authenticate records and returns d[0]
AuthAccepts(d) ==
    Len(d) = 1 /\ (d[1].Status = "Authenticated" \/ d[1].StateToken # "")

\* authenticate recording only the first accepted response
authenticate_KeepsFirst(a, name, hr) ==
    CASE hr.kind = "reqerr" -> [auth |-> a, ret |-> Err(ErrRequest)]
      [] hr.kind = "doerr" -> [auth |-> a, ret |-> Err(ErrTransport)]
      [] hr.kind = "cancelled" -> [auth |-> a, ret |-> Err(ErrCancelled)]
      [] OTHER ->
           IF AuthAccepts(hr.d)
           THEN [auth |-> IF a = Nil THEN hr.d[1] ELSE a, ret |-> Ok(hr.d[1])]
           ELSE [auth |-> a, ret |-> Err(ErrAuthFailed)]

\* authenticate dropping the recorded response when it fails
authenticate_ClearsOnFailure(a, name, hr) ==
    CASE hr.kind = "reqerr" -> [auth |-> Nil, ret |-> Err(ErrRequest)]
      [] hr.kind = "doerr" -> [auth |-> Nil, ret |-> Err(ErrTransport)]
      [] hr.kind = "cancelled" -> [auth |-> Nil, ret |-> Err(ErrCancelled)]
      [] OTHER ->
           IF AuthAccepts(hr.d)
           THEN [auth |-> hr.d[1], ret |-> Ok(hr.d[1])]
           ELSE [auth |-> Nil, ret |-> Err(ErrAuthFailed)]

\* LoginService.authenticate on a service whose auth is a, answered by hr:
\* the new auth and the result
authenticate(a, name, hr) ==
    CASE hr.kind = "reqerr" -> [auth |-> a, ret |-> Err(ErrRequest)]
      [] hr.kind = "doerr" -> [auth |-> a, ret |-> Err(ErrTransport)]
      [] hr.kind = "cancelled" -> [auth |-> a, ret |-> Err(ErrCancelled)]
      [] OTHER ->
           IF AuthAccepts(hr.d)
           THEN [auth |-> hr.d[1], ret |-> Ok(hr.d[1])]
           ELSE [auth |-> a, ret |-> Err(ErrAuthFailed)]

\* the loop of verifyFactor without its break: the last matching device wins
FindDeviceID_Last(devices, device) ==
    IF \E i \in 1..Len(devices) : devices[i].DeviceType = device
    THEN LET last == CHOOSE i \in 1..Len(devices) :
                        /\ devices[i].DeviceType = device
                        /\ \A j \in (i + 1)..Len(devices) :
                              devices[j].DeviceType # device
         IN FormatInt(devices[last].DeviceID)
    ELSE ""

\* the loop of verifyFactor taking the first device whatever its type
FindDeviceID_IgnoresType(devices, device) ==
    IF devices = <<>> THEN "" ELSE FormatInt(Head(devices).DeviceID)

\* the loop of verifyFactor over s.auth.Devices: the formatted DeviceID of the
\* first device whose DeviceType is `device`, "" when there is none
RECURSIVE FindDeviceID(_, _)
FindDeviceID(devices, device) ==
    IF devices = <<>> THEN ""
    ELSE IF Head(devices).DeviceType = device
         THEN FormatInt(Head(devices).DeviceID)
         ELSE FindDeviceID(Tail(devices), device)

\* whether verifyFactor gets as far as building a request
VerifyReaches(a, device) == a # Nil /\ FindDeviceID(a.Devices, device) # ""

\* the verifyFactorParams of the request verifyFactor builds
VerifyRequest(a, device, otp, dnn) ==
    [DeviceID |-> FindDeviceID(a.Devices, device),
     StateToken |-> a.StateToken, OTPToken |-> otp, DoNotNotify |-> dnn]

\* the reading of a responseMessage with 200 "pending" taken for a failure
VerifyResult_PendingFails(m) ==
    IF m.Code = 200 /\ m.Type = "success" /\ m.DataOK
       /\ Len(m.Data) = 1 /\ m.Data[1].Status = "Authenticated"
    THEN Ok(m.Data[1])
    ELSE Err(ErrVerifyFailed)

\* the reading of a responseMessage by verifyFactor
VerifyResult(m) ==
    IF m.Code = 200 /\ m.Type = "pending" THEN Ok(Nil)
    ELSE IF m.Code = 200 /\ m.Type = "success"
         THEN IF ~m.DataOK THEN Err(ErrUnmarshal)
              ELSE IF Len(m.Data) = 1 /\ m.Data[1].Status = "Authenticated"
                   THEN Ok(m.Data[1])
                   ELSE Err(ErrVerifyFailed)
         ELSE Err(ErrVerifyFailed)

\* verifyFactor replacing every error of client.Do by one transport error
verifyFactorBody_OneDoError(a, vd, device, otp, dnn, hr) ==
    IF FindDeviceID(a.Devices, device) = ""
    THEN [verifyDevice |-> vd, sent |-> Nil, ret |-> Err(ErrDeviceNotFound)]
    ELSE LET nvd == [tag |-> device]
             req == VerifyRequest(a, device, otp, dnn) IN
         CASE hr.kind = "reqerr" ->
                [verifyDevice |-> nvd, sent |-> Nil, ret |-> Err(ErrRequest)]
           [] hr.kind \in {"doerr", "cancelled"} ->
                [verifyDevice |-> nvd, sent |-> req, ret |-> Err(ErrTransport)]
           [] hr.kind = "badbody" ->
                [verifyDevice |-> nvd, sent |-> req, ret |-> Err(ErrUnmarshal)]
           [] OTHER ->
                [verifyDevice |-> nvd, sent |-> req, ret |-> VerifyResult(hr.m)]

\* verifyFactor from the device lookup on (a is not nil): the new
\* verifyDevice, the request handed to client.Do (Nil when there is none),
\* the result
verifyFactorBody(a, vd, device, otp, dnn, hr) ==
    IF FindDeviceID(a.Devices, device) = ""
    THEN [verifyDevice |-> vd, sent |-> Nil, ret |-> Err(ErrDeviceNotFound)]
    ELSE LET nvd == [tag |-> device]
             req == VerifyRequest(a, device, otp, dnn) IN
         CASE hr.kind = "reqerr" ->
                [verifyDevice |-> nvd, sent |-> Nil, ret |-> Err(ErrRequest)]
           [] hr.kind = "doerr" ->
                [verifyDevice |-> nvd, sent |-> req, ret |-> Err(ErrTransport)]
           [] hr.kind = "cancelled" ->
                [verifyDevice |-> nvd, sent |-> req, ret |-> Err(ErrCancelled)]
           [] hr.kind = "badbody" ->
                [verifyDevice |-> nvd, sent |-> req, ret |-> Err(ErrUnmarshal)]
           [] OTHER ->
                [verifyDevice |-> nvd, sent |-> req, ret |-> VerifyResult(hr.m)]

\* verifyFactor without the check of s.auth: s.auth.Devices dereferences nil
verifyFactor_NoAuthCheck(a, vd, device, otp, dnn, hr) ==
    IF a = Nil
    THEN [verifyDevice |-> vd, sent |-> Nil, ret |-> Panic]
    ELSE verifyFactorBody(a, vd, device, otp, dnn, hr)

\* LoginService.verifyFactor on a service whose state is (a, vd), answered
\* by hr
verifyFactor(a, vd, device, otp, dnn, hr) ==
    IF a = Nil
    THEN [verifyDevice |-> vd, sent |-> Nil, ret |-> Err(ErrAuthNil)]
    ELSE verifyFactorBody(a, vd, device, otp, dnn, hr)

\* the outcomes the verify call of verifyFactor can have; when verifyFactor
\* returns before it builds a request there is nothing to answer
VerifyOutcomesFor(a, device, otp, dnn) ==
    IF VerifyReaches(a, device)
    THEN VerifyOutcomes(VerifyRequest(a, device, otp, dnn))
    ELSE {[kind |-> "none"]}

\* the outcomes of the verify call of a composite whose auth call was
\* answered by hrA: there is none when authenticate fails
VerifyOutcomesAfter(a, name, hrA, device, otp, dnn) ==
    IF authenticate(a, name, hrA).ret.err # NoErr
    THEN {[kind |-> "none"]}
    ELSE VerifyOutcomesFor(authenticate(a, name, hrA).auth, device, otp, dnn)

\* the host answered a request with 200 "pending"
IsPending(hr) == hr.kind = "ok" /\ hr.m.Code = 200 /\ hr.m.Type = "pending"

\* auth.User of a returned *authResponse: a nil pointer dereference when the
\* response is nil
UserOf(ret) == IF ret.val = Nil THEN Panic ELSE Ok(ret.val.User)

\* LoginService.Authenticate
Authenticate(a, name, hr) ==
    LET r == authenticate(a, name, hr) IN
    [auth |-> r.auth,
     ret |-> IF r.ret.err # NoErr THEN Err(r.ret.err) ELSE Ok(r.ret.val.User)]

\* LoginService.AuthenticateWithVerify, the auth call answered by hrA and the
\* verify call by hrV
AuthenticateWithVerify(a, vd, name, device, otp, hrA, hrV) ==
    LET r1 == authenticate(a, name, hrA) IN
    IF r1.ret.err # NoErr
    THEN [auth |-> r1.auth, verifyDevice |-> vd, sent |-> Nil,
          ret |-> Err(r1.ret.err)]
    ELSE LET r2 == verifyFactor(r1.auth, vd, device, otp, TRUE, hrV) IN
         [auth |-> r1.auth, verifyDevice |-> r2.verifyDevice, sent |-> r2.sent,
          ret |-> IF r2.ret.err # NoErr THEN Err(r2.ret.err) ELSE UserOf(r2.ret)]

\* LoginService.AuthenticateWithPushVerify
AuthenticateWithPushVerify(a, vd, name, device, hrA, hrV) ==
    LET r1 == authenticate(a, name, hrA) IN
    IF r1.ret.err # NoErr
    THEN [auth |-> r1.auth, verifyDevice |-> vd, sent |-> Nil,
          ret |-> Err(r1.ret.err)]
    ELSE LET r2 == verifyFactor(r1.auth, vd, device, "", FALSE, hrV) IN
         [auth |-> r1.auth, verifyDevice |-> r2.verifyDevice, sent |-> r2.sent,
          ret |-> IF r2.ret.err # NoErr THEN Err(r2.ret.err) ELSE Ok(Nil)]

\* VerifyPushToken asking the host to notify the device again
VerifyPushToken_Renotifies(a, vd, otp, hrV) ==
    IF vd = Nil
    THEN [verifyDevice |-> vd, sent |-> Nil, ret |-> Err(ErrNoVerifyDevice)]
    ELSE LET r == verifyFactor(a, vd, vd.tag, otp, FALSE, hrV) IN
         [verifyDevice |-> r.verifyDevice, sent |-> r.sent,
          ret |-> IF r.ret.err # NoErr THEN Err(r.ret.err) ELSE UserOf(r.ret)]

\* LoginService.VerifyPushToken
VerifyPushToken(a, vd, otp, hrV) ==
    IF vd = Nil
    THEN [verifyDevice |-> vd, sent |-> Nil, ret |-> Err(ErrNoVerifyDevice)]
    ELSE LET r == verifyFactor(a, vd, vd.tag, otp, TRUE, hrV) IN
         [verifyDevice |-> r.verifyDevice, sent |-> r.sent,
          ret |-> IF r.ret.err # NoErr THEN Err(r.ret.err) ELSE UserOf(r.ret)]

\* the record of a call: the operation, the device tag asked for ("" when the
\* operation takes none), the verify request handed to client.Do, the result
CallRecord(op, device, sent, ret) ==
    [op |-> op, device |-> device, sent |-> sent, ret |-> ret]

LoginInit ==
    /\ auth = Nil
    /\ verifyDevice = Nil
    /\ call = CallRecord("none", "", Nil, Ok(Nil))
    /\ everAuth = FALSE
    /\ everPending = FALSE

\* s.authenticate(ctx, name, password)
Call_authenticate ==
    \E name \in Usernames : \E hr \in AuthOutcomes(name) :
        LET r == authenticate(auth, name, hr) IN
        /\ auth' = r.auth
        /\ call' = CallRecord("authenticate", "", Nil, r.ret)
        /\ everAuth' = (everAuth \/ r.ret.err = NoErr)
        /\ UNCHANGED <<verifyDevice, everPending>>

\* s.verifyFactor(ctx, device, otp, dnn)
Call_verifyFactor ==
    \E device \in DeviceTags, otp \in CallerOTPs, dnn \in BOOLEAN :
    \E hr \in VerifyOutcomesFor(auth, device, otp, dnn) :
        LET r == verifyFactor(auth, verifyDevice, device, otp, dnn, hr) IN
        /\ verifyDevice' = r.verifyDevice
        /\ call' = CallRecord("verifyFactor", device, r.sent, r.ret)
        /\ everPending' = (everPending \/ (r.sent # Nil /\ IsPending(hr)))
        /\ UNCHANGED <<auth, everAuth>>

\* s.Authenticate(ctx, name, password)
Call_Authenticate ==
    \E name \in Usernames : \E hr \in AuthOutcomes(name) :
        LET r == Authenticate(auth, name, hr) IN
        /\ auth' = r.auth
        /\ call' = CallRecord("Authenticate", "", Nil, r.ret)
        /\ everAuth' = (everAuth \/ r.ret.err = NoErr)
        /\ UNCHANGED <<verifyDevice, everPending>>

\* what a composite call does to the service, with the history it adds:
\* whether its auth call succeeded and whether its verify call was answered
\* "pending"
Effect(r, device, name, hrA, hrV) ==
    [auth |-> r.auth, verifyDevice |-> r.verifyDevice, device |-> device,
     sent |-> r.sent, ret |-> r.ret,
     authOK |-> authenticate(auth, name, hrA).ret.err = NoErr,
     pending |-> r.sent # Nil /\ IsPending(hrV)]

\* the effects AuthenticateWithVerify can have in the current state
EffectsOfAuthenticateWithVerify ==
    UNION { UNION { { Effect(AuthenticateWithVerify(auth, verifyDevice, name,
                                                    device, otp, hrA, hrV),
                             device, name, hrA, hrV) :
                        hrV \in VerifyOutcomesAfter(auth, name, hrA, device,
                                                    otp, TRUE) } :
                    hrA \in AuthOutcomes(name) } :
            name \in Usernames, device \in DeviceTags, otp \in CallerOTPs }

\* the effects AuthenticateWithPushVerify can have in the current state
EffectsOfAuthenticateWithPushVerify ==
    UNION { UNION { { Effect(AuthenticateWithPushVerify(auth, verifyDevice, name,
                                                        device, hrA, hrV),
                             device, name, hrA, hrV) :
                        hrV \in VerifyOutcomesAfter(auth, name, hrA, device,
                                                    "", FALSE) } :
                    hrA \in AuthOutcomes(name) } :
            name \in Usernames, device \in DeviceTags }

\* s.AuthenticateWithVerify(ctx, name, password, device, otp)
Call_AuthenticateWithVerify ==
    \E e \in EffectsOfAuthenticateWithVerify :
        /\ auth' = e.auth
        /\ verifyDevice' = e.verifyDevice
        /\ call' = CallRecord("AuthenticateWithVerify", e.device, e.sent, e.ret)
        /\ everAuth' = (everAuth \/ e.authOK)
        /\ everPending' = (everPending \/ e.pending)

\* s.AuthenticateWithPushVerify(ctx, name, password, device)
Call_AuthenticateWithPushVerify ==
    \E e \in EffectsOfAuthenticateWithPushVerify :
        /\ auth' = e.auth
        /\ verifyDevice' = e.verifyDevice
        /\ call' = CallRecord("AuthenticateWithPushVerify", e.device, e.sent, e.ret)
        /\ everAuth' = (everAuth \/ e.authOK)
        /\ everPending' = (everPending \/ e.pending)

\* s.VerifyPushToken(ctx, otp)
Call_VerifyPushToken ==
    \E otp \in CallerOTPs :
    \E hrV \in (IF verifyDevice = Nil THEN {[kind |-> "none"]}
                ELSE VerifyOutcomesFor(auth, verifyDevice.tag, otp, TRUE)) :
        LET r == VerifyPushToken(auth, verifyDevice, otp, hrV) IN
        /\ verifyDevice' = r.verifyDevice
        /\ call' = CallRecord("VerifyPushToken", "", r.sent, r.ret)
        /\ everPending' = (everPending \/ (r.sent # Nil /\ IsPending(hrV)))
        /\ UNCHANGED <<auth, everAuth>>

-----------------------------------------------------------------------------
(* OauthService.getToken                                                   *)

ErrRead == "response body could not be read"
ErrSyntax == "invalid character in JSON body"
ErrInvalidUnmarshal == "json: Unmarshal(nil pointer)"
ErrOauthNil == "OAuth response is nil"
ErrOauth == "onelogin oauth error"

\* created_at strings of a token response: T0 and Now0 in RFC 3339, a
\* Unix-seconds rendering of T0, and a missing member
CreatedAtStrings ==
    {"2009-02-13T23:16:40Z", "2009-02-13T23:31:30Z", "1234567000", ""}

\* time.Parse(time.RFC3339Nano, str): the instant and whether parsing failed;
\* a failed parse yields the zero instant
ParseRFC3339(str) ==
    CASE str = "2009-02-13T23:16:40Z" -> [t |-> T0, failed |-> FALSE]
      [] str = "2009-02-13T23:31:30Z" -> [t |-> Now0, failed |-> FALSE]
      [] OTHER -> [t |-> ZeroTime, failed |-> TRUE]

\* GenerateTokenResponse values a body can encode
GenerateTokenResponses ==
    [AccessToken : {"at-1"}, AccountID : {42}, CreatedAt : CreatedAtStrings,
     ExpiresIn : {0, 500, 3600}, RefreshToken : {"rt-1"}, TokenType : {"bearer"},
     StatusError : BOOLEAN]

\* outcomes of the token exchange: NewRequest fails, http.Client.Do fails,
\* the caller's context ends the request, the body cannot be read, the body
\* is not JSON, or it encodes a GenerateTokenResponse
TokenOutcomes ==
    {[kind |-> "reqerr"], [kind |-> "doerr"], [kind |-> "cancelled"],
     [kind |-> "readerr"],
     [kind |-> "body", valid |-> FALSE]}
    \cup { [kind |-> "body", valid |-> TRUE, g |-> g] : g \in GenerateTokenResponses }

\* json.Unmarshal(body, target): a syntax error for a body that is not JSON,
\* an InvalidUnmarshalError for a nil target, else the decoded value
JsonUnmarshal(body, target) ==
    IF ~body.valid THEN Err(ErrSyntax)
    ELSE IF target = Nil THEN Err(ErrInvalidUnmarshal)
    ELSE Ok(body.g)

\* Client.DoOAuthGenerate: the target handed to json.Unmarshal is the nil
\* pointer oauthResp, which Unmarshal leaves nil
DoOAuthGenerate(hr) ==
    CASE hr.kind = "doerr" -> Err(ErrTransport)
      [] hr.kind = "cancelled" -> Err(ErrCancelled)
      [] hr.kind = "readerr" -> Err(ErrRead)
      [] OTHER ->
           LET oauthResp == Nil
               u == JsonUnmarshal(hr, oauthResp) IN
           IF u.err # NoErr THEN Err(u.err)
           ELSE IF oauthResp = Nil THEN Err(ErrOauthNil)
           ELSE Ok(u.val)

\* getToken from the decoded response on: the error status, else the
\* oauthToken built from the response fields (the error of time.Parse is
\* discarded)
tokenOf(g) ==
    IF g.StatusError THEN Err(ErrOauth)
    ELSE Ok([AccessToken |-> g.AccessToken, AccountID |-> g.AccountID,
             CreatedAt |-> ParseRFC3339(g.CreatedAt).t,
             ExpiresIn |-> g.ExpiresIn, TokenType |-> g.TokenType,
             refreshToken |-> g.RefreshToken])

\* OauthService.getToken, the exchange ending as hr
getToken(hr) ==
    IF hr.kind = "reqerr" THEN Err(ErrRequest)
    ELSE LET generatedToken == DoOAuthGenerate(hr) IN
         IF generatedToken.err # NoErr THEN Err(generatedToken.err)
         ELSE tokenOf(generatedToken.val)

\* s.getToken(ctx)
Call_getToken ==
    \E hr \in TokenOutcomes :
        /\ issue' = [op |-> "getToken", resp |-> hr, ret |-> getToken(hr)]
        /\ UNCHANGED <<token, clock, tret>>

-----------------------------------------------------------------------------
(* GroupService.GetGroups                                                  *)

\* the most pages a host holds
MaxPages == 2

ErrGroupNil == "empy group response from onelogin"
ErrGroupStatus == "group response from onelogin returned error"

\* Group values
Groups == {[ID |-> 1, Name |-> "admins"], [ID |-> 2, Name |-> "staff"]}

\* the data of a page
PageData == {<<>>} \cup {<<g>> : g \in Groups}

\* what a page request can end as: addOptions / NewRequest / AddAuthorization
\* fails, http.Client.Do fails, the caller's context ends the request, the
\* body cannot be read, the body is not JSON, or it is a JSON page
PageOutcomes ==
    {[kind |-> "reqerr"], [kind |-> "doerr"], [kind |-> "cancelled"],
     [kind |-> "readerr"], [kind |-> "body", valid |-> FALSE]}
    \cup { [kind |-> "body", valid |-> TRUE, data |-> d, error |-> e] :
             d \in PageData, e \in BOOLEAN }

\* a host: the outcomes of the requests for its pages, in page order
GroupHosts == UNION { [1..n -> PageOutcomes] : n \in 1..MaxPages }

\* the cursor that leads to page i + 1
Cursor(i) == "c" \o ToString(i)

\* the "after_cursor" member of page i of a host of n pages: empty on the
\* last page
AfterCursorOf(n, i) == IF i < n THEN Cursor(i) ELSE ""

\* the page a request with the query after_cursor = cursor asks for
PageAsked(cursor) ==
    IF cursor = "" THEN 1
    ELSE 1 + (CHOOSE i \in 1..MaxPages : Cursor(i) = cursor)

\* the value of a member of the "pagination" object of page i: the host
\* sends "after_cursor"; a member it does not send decodes to ""
PaginationMember(pages, i, key) ==
    IF key = "after_cursor" THEN AfterCursorOf(Len(pages), i) ELSE ""

\* the GroupResponse page i decodes to: Pagination.After is read from the
\* member named by its struct tag, "after_curson"
DecodeGroupResponse(pages, i) ==
    [Data |-> pages[i].data,
     After |-> PaginationMember(pages, i, "after_curson"),
     StatusError |-> pages[i].error]

\* Client.DoGroups on the request for page i: the target handed to
\* json.Unmarshal is the nil pointer groupResp
DoGroups(pages, i) ==
    LET hr == pages[i] IN
    CASE hr.kind = "doerr" -> Err(ErrTransport)
      [] hr.kind = "cancelled" -> Err(ErrCancelled)
      [] hr.kind = "readerr" -> Err(ErrRead)
      [] OTHER ->
           LET groupResp == Nil
               body == IF hr.valid
                       THEN [valid |-> TRUE, g |-> DecodeGroupResponse(pages, i)]
                       ELSE [valid |-> FALSE]
               u == JsonUnmarshal(body, groupResp) IN
           IF u.err # NoErr THEN Err(u.err)
           ELSE IF groupResp = Nil THEN Err(ErrGroupNil)
           ELSE IF u.val.StatusError THEN Err(ErrGroupStatus)
           ELSE Ok(u.val)

\* the loop of GetGroups, about to ask for the page after afterCursor with
\* groups collected so far
RECURSIVE GetGroupsLoop(_, _, _)
GetGroupsLoop(pages, afterCursor, groups) ==
    LET i == PageAsked(afterCursor) IN
    IF pages[i].kind = "reqerr" THEN Err(ErrRequest)
    ELSE LET resp == DoGroups(pages, i) IN
         IF resp.err # NoErr THEN Err(resp.err)
         ELSE IF resp.val.After # ""
              THEN GetGroupsLoop(pages, resp.val.After, groups \o resp.val.Data)
              ELSE Ok(groups \o resp.val.Data)

\* GroupService.GetGroups against the host pages
GetGroups(pages) == GetGroupsLoop(pages, "", <<>>)

\* s.GetGroups(ctx)
Call_GetGroups ==
    /\ \E pages \in GroupHosts :
         svc' = [op |-> "GetGroups", host |-> pages, ret |-> GetGroups(pages)]
    /\ UNCHANGED <<calls, cred>>

-----------------------------------------------------------------------------
(* SAMLService.VerifyFactor                                                *)

ErrSamlNil == "empy saml response from onelogin"
ErrSamlStatus == "error from saml assertion onelogin"
ErrNoAssertion == "saml response does not contain an assertion"

\* the data member of a SAML response: none, an assertion in double quotes
\* (a double quote is written ' here), a bare assertion
SamlData == {"", "'PHNhbWw+'", "PHNhbWw+"}

\* strings.Trim(str, double quote): str without its leading and trailing
\* double quotes
TrimQuotes(str) == IF str = "'PHNhbWw+'" THEN "PHNhbWw+" ELSE str

\* SAMLResponse values a body can encode
SAMLResponses ==
    [Message : {"Success", "MFA is required for this user", "Failed"},
     Data : SamlData, StatusCode : {0, 200, 400, 401}]

\* what the verify_factor request of SAMLService can end as
SamlOutcomes ==
    {[kind |-> "reqerr"], [kind |-> "doerr"], [kind |-> "cancelled"],
     [kind |-> "readerr"], [kind |-> "body", valid |-> FALSE]}
    \cup { [kind |-> "body", valid |-> TRUE, g |-> g] : g \in SAMLResponses }

\* Client.DoSAMLAssertion: the target handed to json.Unmarshal is the nil
\* pointer samlResp
DoSAMLAssertion(hr) ==
    CASE hr.kind = "doerr" -> Err(ErrTransport)
      [] hr.kind = "cancelled" -> Err(ErrCancelled)
      [] hr.kind = "readerr" -> Err(ErrRead)
      [] OTHER ->
           LET samlResp == Nil
               u == JsonUnmarshal(hr, samlResp) IN
           IF u.err # NoErr THEN Err(u.err)
           ELSE IF samlResp = Nil THEN Err(ErrSamlNil)
           ELSE IF u.val.StatusCode \in {400, 401} THEN Err(ErrSamlStatus)
           ELSE Ok(u.val)

\* a (string, error) result with the empty string
NoAssertion(e) == [val |-> "", err |-> e, panic |-> FALSE]

\* SAMLService.VerifyFactor, its request ending as hr
VerifyFactor(hr) ==
    IF hr.kind = "reqerr" THEN NoAssertion(ErrRequest)
    ELSE LET samlResp == DoSAMLAssertion(hr) IN
         IF samlResp.err # NoErr THEN NoAssertion(samlResp.err)
         ELSE IF samlResp.val.Message = "Success" /\ samlResp.val.Data # ""
              THEN Ok(TrimQuotes(samlResp.val.Data))
              ELSE NoAssertion(ErrNoAssertion)

\* s.VerifyFactor(ctx, otp, stateToken, appId, deviceId)
Call_SAMLVerifyFactor ==
    /\ \E hr \in SamlOutcomes :
         svc' = [op |-> "VerifyFactor", host |-> hr, ret |-> VerifyFactor(hr)]
    /\ UNCHANGED <<calls, cred>>

\* ---- concurrent getToken calls of one owner ----

\* caller p enters getToken and hands its request to the transport
Begin(p) ==
    /\ calls[p].pc \in {"idle", "returned"}
    /\ calls' = [calls EXCEPT ![p] = [pc |-> "sent", resp |-> Nil, ret |-> Nil]]
    /\ UNCHANGED <<cred, svc>>

\* the exchange of caller p ends as hr; getToken computes its result from
\* its own local variables (generatedToken, createdAt, token)
Respond(p) ==
    /\ calls[p].pc = "sent"
    /\ \E hr \in TokenOutcomes :
         calls' = [calls EXCEPT ![p] =
                      [pc |-> "responded", resp |-> hr, ret |-> getToken(hr)]]
    /\ UNCHANGED <<cred, svc>>

\* getToken returns to caller p; the owner replaces its credential by the
\* returned record when there is one
Return(p) ==
    /\ calls[p].pc = "responded"
    /\ calls' = [calls EXCEPT ![p].pc = "returned"]
    /\ cred' = IF calls[p].ret.err = NoErr THEN calls[p].ret.val ELSE cred
    /\ UNCHANGED svc

-----------------------------------------------------------------------------
(* Specifications                                                          *)

\* a service with no credential checks in progress
TokenIdle ==
    /\ token = [CreatedAt |-> ZeroTime, ExpiresIn |-> 0]
    /\ clock = Now0
    /\ tret = [op |-> "none", val |-> FALSE, at |-> Now0]
    /\ issue = NoIssue
    /\ ServiceIdle

Init == TokenIdle /\ LoginInit

TokenSpecInit == TokenInit /\ LoginInit

TokenNext ==
    \/ CallIsExpired /\ UNCHANGED <<loginVars, serviceVars>>
    \/ CallIsNearExpired /\ UNCHANGED <<loginVars, serviceVars>>
    \/ Tick /\ UNCHANGED <<loginVars, serviceVars>>
    \/ Call_getToken /\ UNCHANGED <<loginVars, serviceVars>>

TokenSpec == TokenSpecInit /\ [][TokenNext]_vars

Next ==
    \/ Call_authenticate /\ UNCHANGED tokenVars
    \/ Call_verifyFactor /\ UNCHANGED tokenVars
    \/ Call_Authenticate /\ UNCHANGED tokenVars
    \/ Call_AuthenticateWithVerify /\ UNCHANGED tokenVars
    \/ Call_AuthenticateWithPushVerify /\ UNCHANGED tokenVars
    \/ Call_VerifyPushToken /\ UNCHANGED tokenVars

Spec == Init /\ [][Next]_vars

IssueNext ==
    \/ \E p \in Callers : Begin(p) /\ UNCHANGED <<token, clock, tret, issue, loginVars>>
    \/ \E p \in Callers : Respond(p) /\ UNCHANGED <<token, clock, tret, issue, loginVars>>
    \/ \E p \in Callers : Return(p) /\ UNCHANGED <<token, clock, tret, issue, loginVars>>

IssueSpec == Init /\ [][IssueNext]_vars

ServiceNext ==
    \/ Call_GetGroups /\ UNCHANGED <<token, clock, tret, issue, loginVars>>
    \/ Call_SAMLVerifyFactor /\ UNCHANGED <<token, clock, tret, issue, loginVars>>

ServiceSpec == Init /\ [][ServiceNext]_vars

-----------------------------------------------------------------------------
(* Properties of oauthToken (checked under TokenSpec)                      *)

\* the credential is created at a real instant, the one the tests use or later
RealCreatedAt == token.CreatedAt # ZeroTime

\* seconds left before the expiry instant at the time of the last check
Remaining == (token.CreatedAt + token.ExpiresIn) - tret.at

\* C1 (as stated): isExpired returns true if and only if
\* now >= CreatedAt + ExpiresIn, so it is true exactly at the expiry instant.
C1_IsExpiredAtOrAfterExpiry ==
    tret.op = "isExpired" =>
        (tret.val <=> (tret.at - token.ExpiresIn >= token.CreatedAt))

\* C1 (amended): isExpired returns true if and only if now is strictly after
\* CreatedAt + ExpiresIn: false exactly at the expiry instant, true 390 s
\* after it (ttl = 500 at T0 + 890), false 10 s or 110 s before it
\* (ttl = 900 or 1000 at T0 + 890).
C1_IsExpiredStrictlyAfterExpiry ==
    tret.op = "isExpired" =>
        /\ RealCreatedAt => (tret.val <=> (tret.at > token.CreatedAt + token.ExpiresIn))
        /\ RealCreatedAt /\ Remaining = 0 => ~tret.val
        /\ token.CreatedAt = T0 /\ tret.at = Now0 /\ token.ExpiresIn = 500 => tret.val
        /\ token.CreatedAt = T0 /\ tret.at = Now0 /\ token.ExpiresIn \in {900, 1000}
              => ~tret.val

\* isExpired was read exactly at the expiry instant of a real credential
C1_Witness ==
    /\ tret.op = "isExpired"
    /\ token.CreatedAt = T0
    /\ token.ExpiresIn > 0
    /\ Remaining = 0
    /\ ~tret.val

C3_ZeroCreatedAtIsExpired ==
    tret.op = "isExpired" /\ token.CreatedAt = ZeroTime => tret.val

\* isExpired was read on a zero-CreatedAt credential with a non-zero ExpiresIn
C3_Witness ==
    /\ tret.op = "isExpired"
    /\ token.CreatedAt = ZeroTime
    /\ token.ExpiresIn = 3600
    /\ tret.at > Now0
    /\ tret.val

\* the exchange was answered with a well-formed record without error status
WellFormed(hr) == hr.kind = "body" /\ hr.valid /\ ~hr.g.StatusError

\* C13 (as stated): getToken has exactly three outcomes: a well-formed
\* response without error status gives a credential whose access token,
\* created-at, expires-in, token type and refresh token are the response's;
\* a response with error status gives the authentication error and no
\* credential; a failed call or an unparsable body gives a transport error
\* and no credential.
C13_GetTokenThreeOutcomes ==
    issue.op = "getToken" =>
        LET hr == issue.resp
            r == issue.ret IN
        /\ WellFormed(hr) =>
              /\ r.err = NoErr
              /\ r.val # Nil
              /\ r.val.AccessToken = hr.g.AccessToken
              /\ r.val.CreatedAt = ParseRFC3339(hr.g.CreatedAt).t
              /\ r.val.ExpiresIn = hr.g.ExpiresIn
              /\ r.val.TokenType = hr.g.TokenType
              /\ r.val.refreshToken = hr.g.RefreshToken
        /\ hr.kind = "body" /\ hr.valid /\ hr.g.StatusError =>
              r = Err(ErrOauth)
        /\ hr.kind \in {"doerr", "readerr"} \/ (hr.kind = "body" /\ ~hr.valid) =>
              r.val = Nil /\ r.err \in {ErrTransport, ErrRead, ErrSyntax}

C15_IsExpiredDependsOnlyOnNow ==
    [][ tret.op = "isExpired" /\ tret'.op = "isExpired" /\ token' = token
        => tret'.val = tret.val ]_vars

\* the credential c is built, field by field, from the response of hr
FromExchange(c, hr) ==
    /\ WellFormed(hr)
    /\ c.AccessToken = hr.g.AccessToken
    /\ c.CreatedAt = ParseRFC3339(hr.g.CreatedAt).t
    /\ c.ExpiresIn = hr.g.ExpiresIn
    /\ c.refreshToken = hr.g.RefreshToken

GoodPage(pages, i) ==
    pages[i].kind = "body" /\ pages[i].valid /\ ~pages[i].error

\* the data of pages i .. Len(pages), in page order
RECURSIVE DataFrom(_, _)
DataFrom(pages, i) ==
    IF i > Len(pages) THEN <<>> ELSE pages[i].data \o DataFrom(pages, i + 1)

\* C23 (as stated, checked under ServiceSpec): GetGroups returns the
\* concatenation, in page order, of the data of every page, following the
\* after-cursors up to the first page without one; if a page request fails it
\* returns the error and no groups.
C23_GetGroupsReturnsAll ==
    svc.op = "GetGroups" =>
        LET pages == svc.host IN
        /\ (\A i \in 1..Len(pages) : GoodPage(pages, i)) =>
              svc.ret = Ok(DataFrom(pages, 1))
        /\ (\E i \in 1..Len(pages) : ~GoodPage(pages, i)) =>
              svc.ret.err # NoErr /\ svc.ret.val = Nil

\* C24 (as stated, checked under ServiceSpec): SAMLService.VerifyFactor
\* returns an assertion, the data without its surrounding double quotes, and
\* a nil error exactly when the response has message Success, non-empty data
\* and a statusCode other than 400 and 401; in every other case it returns an
\* empty assertion and an error.
C24_SamlAssertionOnSuccess ==
    svc.op = "VerifyFactor" =>
        LET hr == svc.host
            accepted == /\ hr.kind = "body" /\ hr.valid
                        /\ hr.g.Message = "Success"
                        /\ hr.g.Data # ""
                        /\ hr.g.StatusCode \notin {400, 401} IN
        /\ accepted => svc.ret = Ok(TrimQuotes(hr.g.Data))
        /\ ~accepted => svc.ret.val = "" /\ svc.ret.err # NoErr

-----------------------------------------------------------------------------
(* Properties of LoginService (checked under Spec)                         *)

\* every outcome a verify call can have once its request is being built
AllVerifyOutcomes ==
    UNION { VerifyOutcomesTable[st] : st \in StateTokens }

\* the recorded device list holds a device whose DeviceType is exactly `device`
Registered(a, device) ==
    \E i \in 1..Len(a.Devices) : a.Devices[i].DeviceType = device

\* the host answers a verify call with 200 "success" and a single
\* Authenticated entry
HostVerified(hr) ==
    /\ hr.kind = "ok"
    /\ hr.m.Code = 200 /\ hr.m.Type = "success"
    /\ hr.m.DataOK /\ Len(hr.m.Data) = 1
    /\ hr.m.Data[1].Status = "Authenticated"

\* C4: verifyFactor on a LoginService on which no authenticate call has ever
\* succeeded returns the no-prior-authentication error and hands no verify
\* request to the transport, for every device tag, OTP and notify policy.
C4_VerifyFactorBeforeAuthenticate ==
    /\ ~everAuth => auth = Nil
    /\ ~everAuth =>
         \A device \in DeviceTags, otp \in OTPs, dnn \in BOOLEAN,
            hr \in AllVerifyOutcomes :
              LET r == verifyFactor(auth, verifyDevice, device, otp, dnn, hr) IN
              /\ r.ret = Err(ErrAuthNil)
              /\ r.sent = Nil
    /\ ~everAuth /\ call.op = "verifyFactor" =>
         call.ret = Err(ErrAuthNil) /\ call.sent = Nil

\* verifyFactor was called on a service that never authenticated
C4_Witness ==
    /\ call.op = "verifyFactor"
    /\ ~everAuth
    /\ call.device = "OneLogin SMS"
    /\ call.ret.err = ErrAuthNil

\* C5 (as stated): while no verifyFactor call has been answered "pending",
\* VerifyPushToken fails with the out-of-sequence error and sends no request;
\* a selected device exists only as the result of a pending verifyFactor call.
C5_PushTokenNeedsPendingVerify ==
    ~everPending =>
        /\ verifyDevice = Nil
        /\ call.op = "VerifyPushToken" =>
             call.ret.err = ErrNoVerifyDevice /\ call.sent = Nil

\* C6: after a successful authenticate, verifyFactor with a device tag that is
\* the DeviceType of no recorded device returns the device-not-found error
\* for every OTP and notify policy, and hands no verify request to the
\* transport.
C6_UnknownDeviceNotFound ==
    /\ auth # Nil =>
         \A device \in DeviceTags :
           ~Registered(auth, device) =>
             \A otp \in OTPs, dnn \in BOOLEAN, hr \in AllVerifyOutcomes :
               LET r == verifyFactor(auth, verifyDevice, device, otp, dnn, hr) IN
               /\ r.ret = Err(ErrDeviceNotFound)
               /\ r.sent = Nil
    /\ call.op = "verifyFactor" /\ auth # Nil /\ ~Registered(auth, call.device) =>
         call.ret = Err(ErrDeviceNotFound) /\ call.sent = Nil

\* verifyFactor was asked for a tag that differs from a recorded DeviceType
\* in case only
C6_Witness ==
    /\ call.op = "verifyFactor"
    /\ auth # Nil
    /\ Len(auth.Devices) > 0
    /\ call.device = "onelogin sms"
    /\ call.ret.err = ErrDeviceNotFound

\* C7 (as stated): authenticate accepts exactly two response shapes: status
\* Authenticated with no state token, and a state token together with a
\* non-empty device list; every other shape is an error.
C7_AuthenticateTwoShapes ==
    call.op = "authenticate" /\ call.ret.err = NoErr =>
        \/ call.ret.val.Status = "Authenticated" /\ call.ret.val.StateToken = ""
        \/ call.ret.val.StateToken # "" /\ Len(call.ret.val.Devices) > 0

\* C7 (amended): authenticate succeeds exactly when the data array holds
\* exactly one entry and that entry has status Authenticated or a non-empty
\* state token, whatever its device list; it then records and returns that
\* entry.  Every other outcome is an error that leaves the recorded response
\* as it was.
C7_AuthenticateAcceptsSingleEntry ==
    /\ \A name \in Usernames : \A hr \in AuthOutcomes(name) :
         LET r == authenticate(auth, name, hr) IN
         /\ r.ret.err = NoErr <=>
              /\ hr.kind = "ok"
              /\ Len(hr.d) = 1
              /\ hr.d[1].Status = "Authenticated" \/ hr.d[1].StateToken # ""
         /\ r.ret.err = NoErr => r.auth = hr.d[1] /\ r.ret.val = hr.d[1]
         /\ r.ret.err # NoErr => r.auth = auth /\ r.ret.val = Nil
    /\ call.op = "authenticate" /\ call.ret.err = NoErr =>
         /\ auth = call.ret.val
         /\ auth.Status = "Authenticated" \/ auth.StateToken # ""

\* authenticate accepted a state token that comes with an empty device list
C7_Witness ==
    /\ call.op = "authenticate"
    /\ call.ret.err = NoErr
    /\ auth.StateToken # ""
    /\ auth.Devices = <<>>
    /\ auth.Status # "Authenticated"

\* C8 (as stated): Authenticate returns a nil error whenever the password
\* step succeeds, without any factor verification, and whenever it returns a
\* nil error the returned user is present.
C8_AuthenticateReturnsUser ==
    call.op = "Authenticate" =>
        /\ call.sent = Nil
        /\ ~call.ret.panic
        /\ call.ret.err = NoErr => call.ret.val # Nil

\* C9 (as stated): AuthenticateWithVerify returns a user only after a verify
\* request that the host answered with success; on every other host behaviour,
\* a pending answer included, it returns an error and no user, and it never
\* aborts abnormally.
C9_AuthenticateWithVerifyStrict ==
    call.op = "AuthenticateWithVerify" =>
        /\ ~call.ret.panic
        /\ call.ret.val # Nil => call.ret.err = NoErr /\ call.sent # Nil

\* the password step returned a state token, a non-empty device list and a user
PasswordStep(c) ==
    /\ c.op = "authenticate"
    /\ c.ret.err = NoErr
    /\ c.ret.val.StateToken # ""
    /\ Len(c.ret.val.Devices) > 0
    /\ c.ret.val.User # Nil

C11_PendingThenPushToken ==
    /\ [](auth # Nil =>
            \A device \in DeviceTags :
              Registered(auth, device) =>
                \A hr \in VerifyOutcomes(VerifyRequest(auth, device, "", FALSE)) :
                  IsPending(hr) =>
                    LET r == verifyFactor(auth, verifyDevice, device, "", FALSE, hr) IN
                    /\ r.ret = Ok(Nil)
                    /\ r.sent # Nil
                    /\ r.verifyDevice = [tag |-> device])
    /\ [](call.op = "AuthenticateWithPushVerify" /\ call.ret.err = NoErr =>
            /\ call.ret = Ok(Nil)
            /\ call.sent # Nil
            /\ verifyDevice = [tag |-> call.device]
            /\ \A otp \in OTPs :
               \A hr \in VerifyOutcomesFor(auth, verifyDevice.tag, otp, TRUE) :
                 HostVerified(hr) =>
                   LET r == VerifyPushToken(auth, verifyDevice, otp, hr) IN
                   /\ r.sent # Nil
                   /\ r.sent.DeviceID = call.sent.DeviceID
                   /\ r.sent.StateToken = call.sent.StateToken
                   /\ r.sent.StateToken = auth.StateToken
                   /\ r.sent.OTPToken = otp
                   /\ r.verifyDevice = verifyDevice
                   /\ r.ret = Ok(hr.m.Data[1].User))
    /\ [][ /\ call.op = "AuthenticateWithPushVerify"
           /\ call.ret.err = NoErr
           /\ call'.op = "VerifyPushToken"
           /\ call'.ret.err = NoErr
           /\ ~call'.ret.panic
           => /\ call'.sent # Nil
              /\ call'.sent.DeviceID = call.sent.DeviceID
              /\ call'.sent.StateToken = call.sent.StateToken
              /\ verifyDevice' = verifyDevice ]_vars

\* VerifyPushToken returned the user of the recorded session, for the device
\* a pending call selected
C11_Witness ==
    /\ call.op = "VerifyPushToken"
    /\ everPending
    /\ call.ret.err = NoErr
    /\ ~call.ret.panic
    /\ call.ret.val # Nil
    /\ call.ret.val = auth.User
    /\ call.sent # Nil
    /\ call.sent.DeviceID = "7"
    /\ verifyDevice = [tag |-> "OneLogin SMS"]

\* C12 (as stated): a verifyFactor call that ends in an error leaves the
\* session state of the LoginService as it was: the recorded auth response
\* and the selected verification device are unchanged.
C12_FailedVerifyLeavesSession ==
    [][ call'.op = "verifyFactor" /\ call'.ret.err # NoErr
        => auth' = auth /\ verifyDevice' = verifyDevice ]_vars

\* every error a call can return other than the cancellation error
OtherErrors ==
    {NoErr, ErrRequest, ErrTransport, ErrUnmarshal, ErrAuthFailed, ErrAuthNil,
     ErrDeviceNotFound, ErrVerifyFailed, ErrNoVerifyDevice, ErrRead, ErrSyntax,
     ErrInvalidUnmarshal, ErrOauthNil, ErrOauth}

Cancelled == [kind |-> "cancelled"]

C17_FreshPerLoginAttempt ==
    [][ /\ call.op \in {"authenticate", "Authenticate"}
        /\ call.ret.err = NoErr
        /\ call'.op = "VerifyPushToken"
        => call'.ret.err = ErrNoVerifyDevice /\ call'.sent = Nil ]_vars

\* the index of the first device of devs whose DeviceType is exactly tag
FirstMatch(devs, tag) ==
    CHOOSE i \in 1..Len(devs) :
        /\ devs[i].DeviceType = tag
        /\ \A j \in 1..(i - 1) : devs[j].DeviceType # tag

\* req carries the state token of a and the identifier of the first device of
\* a whose DeviceType is exactly tag
BoundTo(req, a, tag) ==
    /\ Registered(a, tag)
    /\ req.StateToken = a.StateToken
    /\ req.DeviceID = FormatInt(a.Devices[FirstMatch(a.Devices, tag)].DeviceID)

\* C18: every verify request verifyFactor sends carries the state token
\* recorded by the most recent successful authenticate, the identifier of the
\* first recorded device whose DeviceType equals the requested tag exactly,
\* and the caller's OTP unchanged.
C18_VerifyRequestBinding ==
    /\ [](call.sent # Nil =>
            /\ auth # Nil /\ verifyDevice # Nil
            /\ BoundTo(call.sent, auth, verifyDevice.tag)
            /\ call.device # "" => verifyDevice.tag = call.device
            /\ call.sent.OTPToken \in
                 (IF call.op = "AuthenticateWithPushVerify" THEN {""} ELSE CallerOTPs))
    /\ [](auth # Nil =>
            \A device \in DeviceTags, otp \in OTPs, dnn \in BOOLEAN,
               hr \in AllVerifyOutcomes :
              LET r == verifyFactor(auth, verifyDevice, device, otp, dnn, hr) IN
              r.sent # Nil =>
                  /\ BoundTo(r.sent, auth, device)
                  /\ r.sent.OTPToken = otp
                  /\ r.sent.DoNotNotify = dnn)
    /\ [][ auth' # auth =>
             /\ call'.op \in {"authenticate", "Authenticate", "AuthenticateWithVerify",
                              "AuthenticateWithPushVerify"}
             /\ auth' # Nil
             /\ call'.op = "authenticate" => call'.ret = Ok(auth') ]_vars
    /\ [][ call'.op = "authenticate" /\ call'.ret.err = NoErr
             => auth' = call'.ret.val ]_vars

\* verifyFactor sent the identifier of the first of two devices of the type
\* asked for, with the recorded state token
C18_Witness ==
    /\ call.op = "verifyFactor"
    /\ call.sent # Nil
    /\ call.device = "OneLogin SMS"
    /\ auth.Devices = <<Dev("OneLogin SMS", 0), Dev("OneLogin SMS", 7)>>
    /\ call.sent.DeviceID = "0"
    /\ auth.StateToken # ""
    /\ call.sent.StateToken = auth.StateToken
    /\ call.sent.OTPToken = "123456"

\* C19 (as stated): no verify request is sent with an empty state token or an
\* empty device identifier.
C19_NoEmptyVerifyRequest ==
    call.sent # Nil => call.sent.StateToken # "" /\ call.sent.DeviceID # ""

\* C20: the notify policy of a verify request is fixed by the entry point:
\* VerifyPushToken and AuthenticateWithVerify send do_not_notify = true,
\* AuthenticateWithPushVerify sends do_not_notify = false and an empty OTP;
\* VerifyPushToken sends the caller's code for the remembered device, which
\* it keeps.
C20_NotifyPolicyByEntryPoint ==
    /\ [](call.sent # Nil =>
            /\ call.op = "VerifyPushToken" =>
                 call.sent.DoNotNotify /\ call.sent.OTPToken \in CallerOTPs
            /\ call.op = "AuthenticateWithVerify" =>
                 call.sent.DoNotNotify /\ call.sent.OTPToken \in CallerOTPs
            /\ call.op = "AuthenticateWithPushVerify" =>
                 ~call.sent.DoNotNotify /\ call.sent.OTPToken = "")
    /\ [](auth # Nil /\ verifyDevice # Nil =>
            \A otp \in OTPs, hr \in AllVerifyOutcomes :
              LET r == VerifyPushToken(auth, verifyDevice, otp, hr) IN
              r.sent # Nil =>
                  /\ r.sent.DoNotNotify
                  /\ r.sent.OTPToken = otp
                  /\ BoundTo(r.sent, auth, verifyDevice.tag)
                  /\ r.verifyDevice = verifyDevice)
    /\ [][ call'.op = "VerifyPushToken" /\ call'.sent # Nil =>
             /\ verifyDevice # Nil
             /\ verifyDevice' = verifyDevice
             /\ BoundTo(call'.sent, auth, verifyDevice.tag) ]_vars

\* AuthenticateWithPushVerify asked the host to notify the device
C20_Witness ==
    /\ call.op = "AuthenticateWithPushVerify"
    /\ call.sent # Nil
    /\ ~call.sent.DoNotNotify
    /\ call.sent.OTPToken = ""
    /\ call.ret.err = NoErr

\* C22: a successful authenticate replaces the recorded auth response, state
\* token and device list included, by the entry of its own response; an
\* authenticate that returns an error leaves the recorded auth response and
\* the selected device as they were; no authenticate changes the selected
\* device.
C22_AuthenticateFrame ==
    /\ [](\A name \in Usernames : \A hr \in AuthOutcomes(name) :
            LET r == authenticate(auth, name, hr) IN
            /\ r.ret.err = NoErr =>
                 /\ hr.kind = "ok"
                 /\ r.auth.StateToken = hr.d[1].StateToken
                 /\ r.auth.Devices = hr.d[1].Devices
                 /\ r.auth = hr.d[1]
            /\ r.ret.err # NoErr => r.auth = auth)
    /\ [][ call'.op \in {"authenticate", "Authenticate"} =>
             /\ verifyDevice' = verifyDevice
             /\ call'.ret.err # NoErr => auth' = auth
             /\ call'.ret.err = NoErr => auth' # Nil
             /\ call'.op = "authenticate" /\ call'.ret.err = NoErr =>
                  /\ auth'.StateToken = call'.ret.val.StateToken
                  /\ auth'.Devices = call'.ret.val.Devices ]_vars
    /\ [][ /\ call'.op \in {"AuthenticateWithVerify", "AuthenticateWithPushVerify"}
           /\ call'.ret.err = ErrAuthFailed
           => auth' = auth /\ verifyDevice' = verifyDevice ]_vars

\* authenticate failed on a service that holds a recorded response and a
\* selected device
C22_Witness ==
    /\ call.op = "authenticate"
    /\ call.ret.err = ErrAuthFailed
    /\ auth # Nil
    /\ auth.StateToken # ""
    /\ verifyDevice # Nil

====
